---- MODULE Spec2Model ----
(***************************************************************************)
(* LMDBMinHashLSH (datasketch_lmdb/__init__.py): a MinHash LSH index whose  *)
(* key table and band hashtables live in LMDB databases, with keys and     *)
(* posting lists serialised by msgpack.                                     *)
(*                                                                         *)
(* Python values are records [kind, val]: a str is its bytes, an int is a  *)
(* one-element sequence, a tuple or a list is the sequence of its (small   *)
(* integer) elements. Byte strings are sequences of numbers 0..255.        *)
(***************************************************************************)
EXTENDS Integers, Sequences, FiniteSets, TLC

\* ------------------------------------------------------------ parameters

\* self.b, self.r: bands and rows per band, computed by the parent constructor.
b == 2
r == 1
\* self.h: the signature length (num_perm).  b * r <= h.
h == 2

\* Largest hash value of a signature position, and the longest posting list
\* an insert may extend.
MaxHash == 1
MaxPosting == 2

\* ------------------------------------------------------------ Python values

PyStr(s) == [kind |-> "str", val |-> s]
PyInt(n) == [kind |-> "int", val |-> <<n>>]
PyTuple(xs) == [kind |-> "tuple", val |-> xs]
PyList(xs) == [kind |-> "list", val |-> xs]

\* The keys callers use: the string "a", the integer 7, the tuple (1, 2).
KeyA == PyStr(<<97>>)
KeyI == PyInt(7)
KeyT == PyTuple(<<1, 2>>)
Keys == {KeyA, KeyI, KeyT}
\* Those that msgpack.unpackb gives back equal to what was packed.
ScalarKeys == {KeyA, KeyI}

\* Python's ==: a tuple never equals a list; str, int and sequences compare by value.
PyEq(x, y) == x.kind = y.kind /\ x.val = y.val

\* hash(x) is defined: a list is unhashable and cannot be added to a set.
Hashable(x) == x.kind # "list"

\* Signatures: minhash.hashvalues.  len(minhash) is Len of the sequence.
GoodMinHashes == [1..h -> 0..MaxHash]
BadMinHashes == [1..(h + 1) -> {0}] \cup [1..(h - 1) -> {0}]
MinHashes == GoodMinHashes \cup BadMinHashes

\* ------------------------------------------------------------ msgpack

RECURSIVE Flatten(_)
Flatten(ss) == IF ss = <<>> THEN <<>> ELSE Head(ss) \o Flatten(Tail(ss))

\* msgpack.packb of one object: positive fixint, fixraw (0xa0 | len), fixarray
\* (0x90 | len) of positive fixints.
packb(o) ==
    CASE o.kind = "int" -> <<o.val[1]>>
      [] o.kind = "str" -> <<160 + Len(o.val)>> \o o.val
      [] OTHER -> <<144 + Len(o.val)>> \o o.val

\* msgpack.packb of a Python list of objects.
packb_list(os) == <<144 + Len(os)>> \o Flatten([i \in 1..Len(os) |-> packb(os[i])])

\* The number of bytes of the object encoded at position p of bs.
ObjLen(bs, p) ==
    IF bs[p] < 128 THEN 1
    ELSE IF bs[p] >= 160 THEN 1 + (bs[p] - 160)
    ELSE 1 + (bs[p] - 144)

\* msgpack.unpackb of the object at position p: an array comes back as a list.
ObjAt(bs, p) ==
    IF bs[p] < 128 THEN PyInt(bs[p])
    ELSE IF bs[p] >= 160 THEN PyStr(SubSeq(bs, p + 1, p + bs[p] - 160))
    ELSE PyList(SubSeq(bs, p + 1, p + bs[p] - 144))

RECURSIVE Items(_, _, _)
Items(bs, p, n) ==
    IF n = 0 THEN <<>>
    ELSE <<ObjAt(bs, p)>> \o Items(bs, p + ObjLen(bs, p), n - 1)

\* msgpack.unpackb of an encoded list of objects.
unpackb_list(bs) == Items(bs, 2, bs[1] - 144)

\* ------------------------------------------------------------ band digests

\* Byte k (0 = least significant) of the unsigned value v.
RECURSIVE ByteOf(_, _)
ByteOf(v, k) == IF k = 0 THEN v % 256 ELSE ByteOf(v \div 256, k - 1)

\* The 8 bytes of a uint64 hash value, most significant first.
BigEndian(v) == [i \in 1..8 |-> ByteOf(v, 8 - i)]

\* self._H: the band's hash values as a byte string (byteswapped buffer).
_H(hs) == Flatten([i \in 1..Len(hs) |-> BigEndian(hs[i])])

\* self.hashranges: [(i*r, (i+1)*r) for i in range(b)], 0-based half-open.
hashranges == [i \in 1..b |-> <<(i - 1) * r, i * r>>]

Min(x, y) == IF x < y THEN x ELSE y

\* hashvalues[start:end]: a Python slice stops at the end of the sequence.
Slice(hashvalues, range) ==
    SubSeq(hashvalues, Min(range[1], Len(hashvalues)) + 1,
                       Min(range[2], Len(hashvalues)))

\* [self._H(minhash.hashvalues[start:end]) for start, end in self.hashranges]
Hashes(minhash) == [i \in 1..b |-> _H(Slice(minhash, hashranges[i]))]

\* ------------------------------------------------------------ LMDB databases

\* A database is a function from the stored keys (byte strings) to values.
EmptyDb == [x \in {} |-> <<>>]
Has(db, k) == k \in DOMAIN db
Put(db, k, v) == [x \in (DOMAIN db) \cup {k} |-> IF x = k THEN v ELSE db[x]]
Delete(db, k) == [x \in (DOMAIN db) \ {k} |-> db[x]]
Entries(db) == Cardinality(DOMAIN db)

\* ------------------------------------------------------------ state

VARIABLES
    env_open,       \* self.env is open (not yet closed by close())
    keys_db,        \* database 'keys': packb(key) -> packb(list of band digests)
    hashtable_dbs,  \* databases 'hashtable_<i>': band digest -> packb(list of keys)
    call,           \* the last public call: [op, key, minhash]
    ret,            \* what it returned or raised: [exc, val]
    live,           \* ghost: key -> signature of its last successful insert, until removed
    writer,         \* the thread holding LMDB's write lock, 0 when it is free
    pc,             \* per thread: where its insert call stands
    arg,            \* per thread: the call's arguments [key, minhash]
    txn,            \* per thread: the view of its open write transaction
    idx,            \* per thread: the band the loop is at
    tret            \* per thread: what its call returned or raised

svars == <<env_open, keys_db, hashtable_dbs, call, ret, live>>
tvars == <<writer, pc, arg, txn, idx, tret>>
vars == <<env_open, keys_db, hashtable_dbs, call, ret, live,
          writer, pc, arg, txn, idx, tret>>

\* What a transaction sees and, on commit, publishes: the b + 1 databases.
View(kdb, tdbs) == [keys_db |-> kdb, hashtable_dbs |-> tdbs]
Committed == View(keys_db, hashtable_dbs)

NoKey == [kind |-> "none", val |-> <<>>]
Call(op, key, minhash) == [op |-> op, key |-> key, minhash |-> minhash]

NoExc == "None"
LengthMismatch == "ValueError: Expecting minhash with length"
KeyExists == "ValueError: The given key already exists"
KeyMissing == "ValueError: The given key does not exist"
EnvClosed == "lmdb.Error: Attempt to operate on closed/deleted/dropped object."
Unhashable == "TypeError: unhashable type: 'list'"
NoKeysAttr == "AttributeError: 'LMDBMinHashLSH' object has no attribute 'keys'"

None == "None"
Returned(v) == [exc |-> NoExc, val |-> v]
Raised(e) == [exc |-> e, val |-> None]

\* ------------------------------------------------------------ insert

\* A length check that lets longer signatures through.
LengthOk_AtLeast(minhash) == Len(minhash) >= h

\* len(minhash) != self.h raises ValueError, in insert and in query.
LengthOk(minhash) == Len(minhash) = h

\* txn.put(bkey, bhashes, overwrite=True, db=self.keys_db)
InsertPutKey(view, key, hashes) ==
    [view EXCEPT !.keys_db =
        Put(@, packb(key), packb_list([i \in 1..b |-> PyStr(hashes[i])]))]

\* One pass of the loop over the bands: hashtable[H].append(key).
InsertBand(view, i, H, key) ==
    LET db == view.hashtable_dbs[i]
        keys == IF Has(db, H) THEN unpackb_list(db[H]) ELSE <<>>
    IN  [view EXCEPT !.hashtable_dbs[i] = Put(db, H, packb_list(Append(keys, key)))]

RECURSIVE InsertBands(_, _, _, _)
InsertBands(view, i, hashes, key) ==
    IF i > b THEN view
    ELSE InsertBands(InsertBand(view, i, hashes[i], key), i + 1, hashes, key)

\* insert without the duplicate check: the key's record and postings are
\* written again.
InsertTxn_NoDuplicateCheck(view, key, minhash) ==
    [exc |-> NoExc,
     view |-> InsertBands(InsertPutKey(view, key, Hashes(minhash)),
                          1, Hashes(minhash), key)]

\* The body of insert's write transaction on a snapshot: the exception it
\* raises (the transaction aborts) or the view it commits.
InsertTxn(view, key, minhash) ==
    IF Has(view.keys_db, packb(key))
    THEN [exc |-> KeyExists, view |-> view]
    ELSE [exc |-> NoExc,
          view |-> InsertBands(InsertPutKey(view, key, Hashes(minhash)),
                               1, Hashes(minhash), key)]

\* The posting lists this insert would extend are shorter than MaxPosting.
Room(minhash) ==
    \A i \in 1..b :
        LET H == Hashes(minhash)[i]
        IN  Has(hashtable_dbs[i], H) =>
                Len(unpackb_list(hashtable_dbs[i][H])) < MaxPosting

Insert(key, minhash) ==
    /\ UNCHANGED tvars
    /\ call' = Call("insert", key, minhash)
    /\ IF ~LengthOk(minhash)
       THEN /\ ret' = Raised(LengthMismatch)
            /\ UNCHANGED <<env_open, keys_db, hashtable_dbs, live>>
       ELSE IF ~env_open
       THEN /\ ret' = Raised(EnvClosed)
            /\ UNCHANGED <<env_open, keys_db, hashtable_dbs, live>>
       ELSE LET out == InsertTxn(Committed, key, minhash)
            IN  IF out.exc # NoExc
                THEN /\ ret' = Raised(out.exc)
                     /\ UNCHANGED <<env_open, keys_db, hashtable_dbs, live>>
                ELSE /\ Room(minhash)
                     /\ ret' = Returned(None)
                     /\ keys_db' = out.view.keys_db
                     /\ hashtable_dbs' = out.view.hashtable_dbs
                     /\ live' = [k \in (DOMAIN live) \cup {key} |->
                                    IF k = key THEN minhash ELSE live[k]]
                     /\ UNCHANGED env_open

\* ------------------------------------------------------------ remove

\* The index of the first element of keys equal to key, 0 when there is none.
IndexOf(keys, key) ==
    IF \E j \in 1..Len(keys) : PyEq(keys[j], key)
    THEN CHOOSE j \in 1..Len(keys) :
            /\ PyEq(keys[j], key)
            /\ \A m \in 1..(j - 1) : ~PyEq(keys[m], key)
    ELSE 0

\* keys with its j-th element taken out.
Without(keys, j) == SubSeq(keys, 1, j - 1) \o SubSeq(keys, j + 1, Len(keys))

\* A loop body that deletes the band's entry when key is not in its list.
RemoveBand_DropsEntry(view, i, H, key) ==
    LET db == view.hashtable_dbs[i]
    IN  IF ~Has(db, H) THEN view
        ELSE LET keys == unpackb_list(db[H])
                 j == IndexOf(keys, key)
             IN  IF j # 0 /\ Without(keys, j) # <<>>
                 THEN [view EXCEPT !.hashtable_dbs[i] =
                                       Put(db, H, packb_list(Without(keys, j)))]
                 ELSE [view EXCEPT !.hashtable_dbs[i] = Delete(db, H)]

\* One pass of the loop over the bands: hashtable[H].remove(key), the entry
\* deleted when the list becomes empty, left alone when key is not in it.
RemoveBand(view, i, H, key) ==
    LET db == view.hashtable_dbs[i]
    IN  IF ~Has(db, H) THEN view
        ELSE LET keys == unpackb_list(db[H])
                 j == IndexOf(keys, key)
             IN  IF j = 0 THEN view
                 ELSE IF Without(keys, j) # <<>>
                 THEN [view EXCEPT !.hashtable_dbs[i] =
                                       Put(db, H, packb_list(Without(keys, j)))]
                 ELSE [view EXCEPT !.hashtable_dbs[i] = Delete(db, H)]

RECURSIVE RemoveBands(_, _, _, _)
RemoveBands(view, i, hashes, key) ==
    IF i > Len(hashes) \/ i > b THEN view
    ELSE RemoveBands(RemoveBand(view, i, hashes[i].val, key), i + 1, hashes, key)

\* txn.pop(bkey, db=self.keys_db)
RemovePopKey(view, key) == [view EXCEPT !.keys_db = Delete(@, packb(key))]

\* The body of remove's write transaction on a snapshot.
RemoveTxn(view, key) ==
    IF ~Has(view.keys_db, packb(key))
    THEN [exc |-> KeyMissing, view |-> view]
    ELSE [exc |-> NoExc,
          view |-> RemovePopKey(
                       RemoveBands(view, 1,
                                   unpackb_list(view.keys_db[packb(key)]), key),
                       key)]

Remove(key) ==
    /\ UNCHANGED tvars
    /\ call' = Call("remove", key, <<>>)
    /\ IF ~env_open
       THEN /\ ret' = Raised(EnvClosed)
            /\ UNCHANGED <<env_open, keys_db, hashtable_dbs, live>>
       ELSE LET out == RemoveTxn(Committed, key)
            IN  IF out.exc # NoExc
                THEN /\ ret' = Raised(out.exc)
                     /\ UNCHANGED <<env_open, keys_db, hashtable_dbs, live>>
                ELSE /\ ret' = Returned(None)
                     /\ keys_db' = out.view.keys_db
                     /\ hashtable_dbs' = out.view.hashtable_dbs
                     /\ live' = [k \in (DOMAIN live) \ {key} |-> live[k]]
                     /\ UNCHANGED env_open

\* ------------------------------------------------------------ query

\* The keys the loop over the bands reads, in the order it adds them to
\* candidates: band i contributes the list stored under its digest, if any.
QueryKeys(view, minhash) ==
    Flatten([i \in 1..b |->
        LET db == view.hashtable_dbs[i]
            H == _H(Slice(minhash, hashranges[i]))
        IN  IF Has(db, H) THEN unpackb_list(db[H]) ELSE <<>>])

\* The body of query's read transaction: candidates.add(key) raises TypeError
\* on an unhashable key, otherwise the set of the keys read is returned.
QueryTxn(view, minhash) ==
    LET keys == QueryKeys(view, minhash)
    IN  IF \E j \in 1..Len(keys) : ~Hashable(keys[j])
        THEN Raised(Unhashable)
        ELSE Returned({keys[j] : j \in 1..Len(keys)})

\* What query(minhash) returns or raises in the current state.
QueryResult(minhash) ==
    IF ~LengthOk(minhash) THEN Raised(LengthMismatch)
    ELSE IF ~env_open THEN Raised(EnvClosed)
    ELSE QueryTxn(Committed, minhash)

\* A query that, like a lookup in a defaultdict(list), leaves an (empty)
\* entry behind in each band where it found none.
Query_CreatesBuckets(minhash) ==
    /\ UNCHANGED tvars
    /\ call' = Call("query", NoKey, minhash)
    /\ ret' = QueryResult(minhash)
    /\ hashtable_dbs' =
          [i \in 1..b |->
              LET H == _H(Slice(minhash, hashranges[i]))
              IN  IF Has(hashtable_dbs[i], H) THEN hashtable_dbs[i]
                  ELSE Put(hashtable_dbs[i], H, packb_list(<<>>))]
    /\ UNCHANGED <<env_open, keys_db, live>>

Query(minhash) ==
    /\ UNCHANGED tvars
    /\ call' = Call("query", NoKey, minhash)
    /\ ret' = QueryResult(minhash)
    /\ UNCHANGED <<env_open, keys_db, hashtable_dbs, live>>

\* ------------------------------------------------------------ contains

\* `key in lsh`: __contains__ is the parent's, `return key in self.keys`, and
\* the constructor has deleted self.keys.
ContainsResult(key) == Raised(NoKeysAttr)

Contains(key) ==
    /\ UNCHANGED tvars
    /\ call' = Call("contains", key, <<>>)
    /\ ret' = ContainsResult(key)
    /\ UNCHANGED <<env_open, keys_db, hashtable_dbs, live>>

\* ------------------------------------------------------------ is_empty

\* An is_empty that answers from the band tables without going through the
\* environment, closed or not.
IsEmptyResult_IgnoresClose ==
    Returned(\A i \in 1..b : ~(Entries(hashtable_dbs[i]) > 0))

\* What is_empty() returns or raises in the current state.
IsEmptyResult ==
    IF ~env_open THEN Raised(EnvClosed)
    ELSE Returned(\A i \in 1..b : ~(Entries(hashtable_dbs[i]) > 0))

IsEmpty ==
    /\ UNCHANGED tvars
    /\ call' = Call("is_empty", NoKey, <<>>)
    /\ ret' = IsEmptyResult
    /\ UNCHANGED <<env_open, keys_db, hashtable_dbs, live>>

\* ------------------------------------------------------------ close, reopen

\* close(): self.env.close().
Close ==
    /\ UNCHANGED tvars
    /\ call' = Call("close", NoKey, <<>>)
    /\ ret' = Returned(None)
    /\ env_open' = FALSE
    /\ UNCHANGED <<keys_db, hashtable_dbs, live>>

\* A constructor that starts from empty databases instead of the ones at path.
Reopen_FreshStore ==
    /\ UNCHANGED tvars
    /\ ~env_open
    /\ call' = Call("__init__", NoKey, <<>>)
    /\ ret' = Returned(None)
    /\ env_open' = TRUE
    /\ keys_db' = EmptyDb
    /\ hashtable_dbs' = [i \in 1..b |-> EmptyDb]
    /\ live' = [k \in {} |-> <<>>]

\* A new LMDBMinHashLSH at the same path with the same parameters, once the
\* previous one is closed: lmdb.open and open_db find the databases as they are.
Reopen ==
    /\ UNCHANGED tvars
    /\ ~env_open
    /\ call' = Call("__init__", NoKey, <<>>)
    /\ ret' = Returned(None)
    /\ env_open' = TRUE
    /\ UNCHANGED <<keys_db, hashtable_dbs, live>>

\* ------------------------------------------------------------ specification

\* The threads that call insert concurrently on one open index.
Threads == {1, 2}
NoTxn == View(EmptyDb, [i \in 1..b |-> EmptyDb])

\* A new index over an empty store; no thread has called yet.
Init ==
    /\ env_open = TRUE
    /\ keys_db = EmptyDb
    /\ hashtable_dbs = [i \in 1..b |-> EmptyDb]
    /\ call = Call("__init__", NoKey, <<>>)
    /\ ret = Returned(None)
    /\ live = [k \in {} |-> <<>>]
    /\ writer = 0
    /\ pc = [t \in Threads |-> "idle"]
    /\ arg = [t \in Threads |-> [key |-> NoKey, minhash |-> <<>>]]
    /\ txn = [t \in Threads |-> NoTxn]
    /\ idx = [t \in Threads |-> 0]
    /\ tret = [t \in Threads |-> Returned(None)]

Next ==
    \/ \E key \in Keys, minhash \in MinHashes : Insert(key, minhash)
    \/ \E key \in Keys : Remove(key)
    \/ \E minhash \in MinHashes : Query(minhash)
    \/ \E key \in Keys : Contains(key)
    \/ IsEmpty
    \/ Close
    \/ Reopen

Spec == Init /\ [][Next]_vars

\* The same index used with str and int keys only.
ScalarNext ==
    \/ \E key \in ScalarKeys, minhash \in MinHashes : Insert(key, minhash)
    \/ \E key \in ScalarKeys : Remove(key)
    \/ \E minhash \in MinHashes : Query(minhash)
    \/ \E key \in ScalarKeys : Contains(key)
    \/ IsEmpty
    \/ Close
    \/ Reopen

ScalarSpec == Init /\ [][ScalarNext]_vars

\* ------------------------------------------------------------ concurrent inserts
\* Two threads of one process call insert on the same open index.  Each step
\* below is one statement group of insert; the write transaction's view is
\* private to the thread until the with-block commits it.

\* Write transactions that do not wait for one another.
WriteLockFree_Unserialised == TRUE

\* env.begin(write=True) returns only when no other write transaction is open.
WriteLockFree == writer = 0

\* insert is called: the length check, then packb(key).
T_Call(t, key, minhash) ==
    /\ pc[t] = "idle"
    /\ arg' = [arg EXCEPT ![t] = [key |-> key, minhash |-> minhash]]
    /\ IF ~LengthOk(minhash)
       THEN /\ pc' = [pc EXCEPT ![t] = "done"]
            /\ tret' = [tret EXCEPT ![t] = Raised(LengthMismatch)]
       ELSE /\ pc' = [pc EXCEPT ![t] = "begin"]
            /\ UNCHANGED tret
    /\ UNCHANGED <<svars, writer, txn, idx>>

\* with self.env.begin(write=True, buffers=True) as txn: the write lock is
\* taken and the transaction starts from the last committed state.
T_Begin(t) ==
    /\ pc[t] = "begin"
    /\ WriteLockFree
    /\ writer' = t
    /\ txn' = [txn EXCEPT ![t] = Committed]
    /\ pc' = [pc EXCEPT ![t] = "check"]
    /\ UNCHANGED <<svars, arg, idx, tret>>

\* The key's digests stored without looking for an earlier record.
T_Check_NoDuplicateCheck(t) ==
    /\ pc[t] = "check"
    /\ txn' = [txn EXCEPT ![t] =
                  InsertPutKey(@, arg[t].key, Hashes(arg[t].minhash))]
    /\ idx' = [idx EXCEPT ![t] = 1]
    /\ pc' = [pc EXCEPT ![t] = "band"]
    /\ UNCHANGED <<svars, arg, writer, tret>>

\* The duplicate check on the key table; the raise leaves the with-block,
\* which aborts the transaction.  Otherwise the key's digests are stored.
T_Check(t) ==
    /\ pc[t] = "check"
    /\ IF Has(txn[t].keys_db, packb(arg[t].key))
       THEN /\ tret' = [tret EXCEPT ![t] = Raised(KeyExists)]
            /\ pc' = [pc EXCEPT ![t] = "done"]
            /\ writer' = 0
            /\ txn' = [txn EXCEPT ![t] = NoTxn]
            /\ UNCHANGED idx
       ELSE /\ txn' = [txn EXCEPT ![t] =
                          InsertPutKey(@, arg[t].key, Hashes(arg[t].minhash))]
            /\ idx' = [idx EXCEPT ![t] = 1]
            /\ pc' = [pc EXCEPT ![t] = "band"]
            /\ UNCHANGED <<writer, tret>>
    /\ UNCHANGED <<svars, arg>>

\* One pass of the loop over the bands, inside the transaction.
T_Band(t) ==
    /\ pc[t] = "band"
    /\ txn' = [txn EXCEPT ![t] =
                  InsertBand(@, idx[t], Hashes(arg[t].minhash)[idx[t]], arg[t].key)]
    /\ idx' = [idx EXCEPT ![t] = @ + 1]
    /\ pc' = [pc EXCEPT ![t] = IF idx[t] = b THEN "commit" ELSE "band"]
    /\ UNCHANGED <<svars, writer, arg, tret>>

\* The with-block ends normally: the transaction commits and the lock is freed.
T_Commit(t) ==
    /\ pc[t] = "commit"
    /\ keys_db' = txn[t].keys_db
    /\ hashtable_dbs' = txn[t].hashtable_dbs
    /\ live' = [k \in (DOMAIN live) \cup {arg[t].key} |->
                   IF k = arg[t].key THEN arg[t].minhash ELSE live[k]]
    /\ writer' = 0
    /\ txn' = [txn EXCEPT ![t] = NoTxn]
    /\ tret' = [tret EXCEPT ![t] = Returned(None)]
    /\ pc' = [pc EXCEPT ![t] = "done"]
    /\ UNCHANGED <<env_open, call, ret, arg, idx>>

ConcNext ==
    \/ \E t \in Threads, key \in Keys, minhash \in MinHashes : T_Call(t, key, minhash)
    \/ \E t \in Threads : T_Begin(t)
    \/ \E t \in Threads : T_Check(t)
    \/ \E t \in Threads : T_Band(t)
    \/ \E t \in Threads : T_Commit(t)

ConcSpec == Init /\ [][ConcNext]_vars

\* ------------------------------------------------------------ failing transactions
\* One thread calls insert and remove, one after the other, each call stepping
\* through its write transaction; a write of the transaction, or its commit,
\* may raise (the map is full), and the exception leaves the with-block.

TxnError == "lmdb.MapFullError: Environment mapsize limit reached"

\* The band digests of the key's record, as remove reads them.
StoredHashes(t) == unpackb_list(txn[t].keys_db[packb(arg[t].key)])

\* remove is called: packb(key).
T_RCall(t, key) ==
    /\ pc[t] = "idle"
    /\ arg' = [arg EXCEPT ![t] = [key |-> key, minhash |-> <<>>]]
    /\ pc' = [pc EXCEPT ![t] = "rbegin"]
    /\ UNCHANGED <<svars, writer, txn, idx, tret>>

\* with self.env.begin(write=True, buffers=True) as txn, in remove.
T_RBegin(t) ==
    /\ pc[t] = "rbegin"
    /\ WriteLockFree
    /\ writer' = t
    /\ txn' = [txn EXCEPT ![t] = Committed]
    /\ pc' = [pc EXCEPT ![t] = "rcheck"]
    /\ UNCHANGED <<svars, arg, idx, tret>>

\* The existence check on the key table; the raise leaves the with-block,
\* which aborts the transaction.  Otherwise the record's digests are read.
T_RCheck(t) ==
    /\ pc[t] = "rcheck"
    /\ IF ~Has(txn[t].keys_db, packb(arg[t].key))
       THEN /\ tret' = [tret EXCEPT ![t] = Raised(KeyMissing)]
            /\ pc' = [pc EXCEPT ![t] = "done"]
            /\ writer' = 0
            /\ txn' = [txn EXCEPT ![t] = NoTxn]
            /\ UNCHANGED idx
       ELSE /\ idx' = [idx EXCEPT ![t] = 1]
            /\ pc' = [pc EXCEPT ![t] = "rband"]
            /\ UNCHANGED <<writer, txn, tret>>
    /\ UNCHANGED <<svars, arg>>

\* One pass of remove's loop over the bands, inside the transaction.
T_RBand(t) ==
    /\ pc[t] = "rband"
    /\ txn' = [txn EXCEPT ![t] =
                  RemoveBand(@, idx[t], StoredHashes(t)[idx[t]].val, arg[t].key)]
    /\ idx' = [idx EXCEPT ![t] = @ + 1]
    /\ pc' = [pc EXCEPT ![t] =
                 IF idx[t] = Min(Len(StoredHashes(t)), b) THEN "rpop" ELSE "rband"]
    /\ UNCHANGED <<svars, writer, arg, tret>>

\* txn.pop(bkey, db=self.keys_db), the last statement of the with-block.
T_RPop(t) ==
    /\ pc[t] = "rpop"
    /\ txn' = [txn EXCEPT ![t] = RemovePopKey(@, arg[t].key)]
    /\ pc' = [pc EXCEPT ![t] = "rcommit"]
    /\ UNCHANGED <<svars, writer, arg, idx, tret>>

\* remove's with-block ends normally: the transaction commits.
T_RCommit(t) ==
    /\ pc[t] = "rcommit"
    /\ keys_db' = txn[t].keys_db
    /\ hashtable_dbs' = txn[t].hashtable_dbs
    /\ live' = [k \in (DOMAIN live) \ {arg[t].key} |-> live[k]]
    /\ writer' = 0
    /\ txn' = [txn EXCEPT ![t] = NoTxn]
    /\ tret' = [tret EXCEPT ![t] = Returned(None)]
    /\ pc' = [pc EXCEPT ![t] = "done"]
    /\ UNCHANGED <<env_open, call, ret, arg, idx>>

\* The thread's next statement is a txn.put, txn.delete or txn.pop, or the
\* commit at the end of the with-block.
WriteDue(t) ==
    CASE pc[t] = "check" -> ~Has(txn[t].keys_db, packb(arg[t].key))
      [] pc[t] = "rband" ->
            RemoveBand(txn[t], idx[t], StoredHashes(t)[idx[t]].val, arg[t].key) # txn[t]
      [] pc[t] \in {"band", "rpop", "commit", "rcommit"} -> TRUE
      [] OTHER -> FALSE

\* An exception that leaves the with-block with the writes made so far
\* committed, as a commit in a finally clause would.
T_Fail_KeepsWrites(t) ==
    /\ WriteDue(t)
    /\ tret' = [tret EXCEPT ![t] = Raised(TxnError)]
    /\ pc' = [pc EXCEPT ![t] = "done"]
    /\ writer' = 0
    /\ keys_db' = txn[t].keys_db
    /\ hashtable_dbs' = txn[t].hashtable_dbs
    /\ txn' = [txn EXCEPT ![t] = NoTxn]
    /\ UNCHANGED <<env_open, call, ret, live, arg, idx>>

\* The write raises: the exception leaves the with-block, whose exit aborts
\* the transaction and frees the write lock; the call raises it.
T_Fail(t) ==
    /\ WriteDue(t)
    /\ tret' = [tret EXCEPT ![t] = Raised(TxnError)]
    /\ pc' = [pc EXCEPT ![t] = "done"]
    /\ writer' = 0
    /\ txn' = [txn EXCEPT ![t] = NoTxn]
    /\ UNCHANGED <<svars, arg, idx>>

\* The call is over; the thread goes on to its next call.
T_Return(t) ==
    /\ pc[t] = "done"
    /\ pc' = [pc EXCEPT ![t] = "idle"]
    /\ arg' = [arg EXCEPT ![t] = [key |-> NoKey, minhash |-> <<>>]]
    /\ idx' = [idx EXCEPT ![t] = 0]
    /\ tret' = [tret EXCEPT ![t] = Returned(None)]
    /\ UNCHANGED <<svars, writer, txn>>

\* The thread that makes the calls.
Caller == 1

AtomicNext ==
    \/ \E key \in Keys, minhash \in GoodMinHashes :
          Room(minhash) /\ T_Call(Caller, key, minhash)
    \/ T_Begin(Caller)
    \/ T_Check(Caller)
    \/ T_Band(Caller)
    \/ T_Commit(Caller)
    \/ \E key \in Keys : T_RCall(Caller, key)
    \/ T_RBegin(Caller)
    \/ T_RCheck(Caller)
    \/ T_RBand(Caller)
    \/ T_RPop(Caller)
    \/ T_RCommit(Caller)
    \/ T_Fail(Caller)
    \/ T_Return(Caller)

AtomicSpec == Init /\ [][AtomicNext]_vars

\* ------------------------------------------------------------ a store that has drifted
\* The index is constructed over a store that earlier use left at path, in
\* which at most one posting entry has been lost or has lost one key, and one
\* thread calls remove.

KeyOrder == <<KeyA, KeyI, KeyT>>

\* The store after insert(KeyOrder[n], f[KeyOrder[n]]) for n = 1, 2, ..., in
\* this order, for the keys that f gives a signature.
RECURSIVE BuiltStore(_, _)
BuiltStore(f, n) ==
    IF n = 0 THEN NoTxn
    ELSE LET k == KeyOrder[n]
             view == BuiltStore(f, n - 1)
         IN  IF f[k] = <<>> THEN view ELSE InsertTxn(view, k, f[k]).view

\* The digests a band can store.
BandDigests == {Hashes(s)[i] : s \in GoodMinHashes, i \in 1..b}

\* view without the j-th key of the posting of band i under H; without the
\* whole entry when j = 0 or when no key would be left.
Drift(view, i, H, j) ==
    LET db == view.hashtable_dbs[i]
    IN  IF ~Has(db, H) \/ j > Len(unpackb_list(db[H])) THEN view
        ELSE IF j = 0 \/ Len(unpackb_list(db[H])) = 1
        THEN [view EXCEPT !.hashtable_dbs[i] = Delete(db, H)]
        ELSE [view EXCEPT !.hashtable_dbs[i] =
                              Put(db, H, packb_list(Without(unpackb_list(db[H]), j)))]

\* No posting list of the view is longer than MaxPosting.
WithinBound(view) ==
    \A i \in 1..b : \A H \in DOMAIN view.hashtable_dbs[i] :
        Len(unpackb_list(view.hashtable_dbs[i][H])) <= MaxPosting

DriftInit ==
    \E f \in [Keys -> GoodMinHashes \cup {<<>>}], i \in 1..b,
       H \in BandDigests, j \in 0..MaxPosting :
        /\ WithinBound(BuiltStore(f, Len(KeyOrder)))
        /\ keys_db = Drift(BuiltStore(f, Len(KeyOrder)), i, H, j).keys_db
        /\ hashtable_dbs = Drift(BuiltStore(f, Len(KeyOrder)), i, H, j).hashtable_dbs
        /\ live = [k \in {x \in Keys : f[x] # <<>>} |-> f[k]]
        /\ env_open = TRUE
        /\ call = Call("__init__", NoKey, <<>>)
        /\ ret = Returned(None)
        /\ writer = 0
        /\ pc = [t \in Threads |-> "idle"]
        /\ arg = [t \in Threads |-> [key |-> NoKey, minhash |-> <<>>]]
        /\ txn = [t \in Threads |-> NoTxn]
        /\ idx = [t \in Threads |-> 0]
        /\ tret = [t \in Threads |-> Returned(None)]

DriftNext ==
    \/ \E key \in Keys : T_RCall(Caller, key)
    \/ T_RBegin(Caller)
    \/ T_RCheck(Caller)
    \/ T_RBand(Caller)
    \/ T_RPop(Caller)
    \/ T_RCommit(Caller)
    \/ T_Return(Caller)

DriftSpec == DriftInit /\ [][DriftNext]_vars

\* ------------------------------------------------------------ reading the store

\* k has a primary record.
HasRecord(k) == Has(keys_db, packb(k))

\* The band digests stored in k's primary record.
Digests(k) ==
    LET hashes == unpackb_list(keys_db[packb(k)])
    IN  [i \in 1..Len(hashes) |-> hashes[i].val]

\* The decoded posting list of band i under digest H; empty when there is no entry.
Posting(i, H) ==
    IF Has(hashtable_dbs[i], H) THEN unpackb_list(hashtable_dbs[i][H]) ELSE <<>>

\* k occurs in a list of decoded keys; keys are compared by their encoding.
Occurs(k, keys) == \E j \in 1..Len(keys) : packb(keys[j]) = packb(k)

\* k occurs in some posting list of band i.
PostedInBand(k, i) == \E H \in DOMAIN hashtable_dbs[i] : Occurs(k, Posting(i, H))

\* The three collections-changing or not: the persisted state is the same
\* before and after the step.
SameStore == keys_db' = keys_db /\ hashtable_dbs' = hashtable_dbs

\* ------------------------------------------------------------ claims

\* C1: after every completed operation, a key has a primary record if and
\* only if, in every band, it appears in the posting entry stored under that
\* band's digest of its record.  For a key without a record the right-hand
\* side is read as: it appears in some posting entry of every band.
C1_RecordIffPosted ==
    \A k \in Keys :
        /\ HasRecord(k) => \A i \in 1..b : Occurs(k, Posting(i, Digests(k)[i]))
        /\ (\A i \in 1..b : PostedInBand(k, i)) => HasRecord(k)

\* C2: from a successful insert(k, s) until remove(k) succeeds, on an open
\* index query(s) returns a set containing k.
C2_QueryFindsInserted ==
    \A k \in DOMAIN live :
        env_open =>
            /\ QueryResult(live[k]).exc = NoExc
            /\ k \in QueryResult(live[k]).val

\* C3: on an open index contains(k) returns a boolean, true exactly when k
\* has a primary record (k was inserted and not removed since).
C3_ContainsIffRecord ==
    (call.op = "contains" /\ env_open) =>
        /\ ret.exc = NoExc
        /\ ret.val \in BOOLEAN
        /\ ret.val <=> (HasRecord(call.key) /\ call.key \in DOMAIN live)

\* C4: an insert of a key that has a primary record (one inserted before and
\* not removed), with any signature of the right length, fails with the
\* duplicate-key error and leaves the key table and every band table as they
\* were; and a successful insert leaves the key with a primary record, so the
\* insert that follows it is such a call.
C4_DuplicateInsertRejected ==
    [][\A k \in Keys :
        (call'.op = "insert" /\ call'.key = k /\ Len(call'.minhash) = h /\ env_open)
        => /\ HasRecord(k) => (ret'.exc = KeyExists /\ SameStore)
           /\ ret'.exc = NoExc => HasRecord(k)'
           /\ k \in DOMAIN live => HasRecord(k)]_vars

\* A second insert of a live key, with another signature, has been rejected.
C4_Witness ==
    /\ call.op = "insert"
    /\ ret.exc = KeyExists
    /\ call.key \in DOMAIN live
    /\ live[call.key] # call.minhash

\* C5: after a successful remove(k), contains(k) is false and another
\* remove(k) fails with the unknown-key error; a remove of a key without a
\* primary record fails with that error and leaves the store as it was.
C5_RemoveIsComplete ==
    [][\A k \in Keys :
        (call'.op = "remove" /\ call'.key = k /\ env_open)
        => /\ ret'.exc = NoExc =>
                /\ ContainsResult(k)'.exc = NoExc
                /\ ContainsResult(k)'.val = FALSE
                /\ RemoveTxn(Committed, k)'.exc = KeyMissing
           /\ ~HasRecord(k) => (ret'.exc = KeyMissing /\ SameStore)]_vars

\* The parts of C5 that do not go through contains: a remove of a key without
\* a primary record fails with the unknown-key error and changes nothing, and
\* after a successful remove(k) another remove(k) would fail with it.
RemoveTwiceFails ==
    [][\A k \in Keys :
        (call'.op = "remove" /\ call'.key = k /\ env_open)
        => /\ ret'.exc = NoExc => RemoveTxn(Committed, k)'.exc = KeyMissing
           /\ ~HasRecord(k) => (ret'.exc = KeyMissing /\ SameStore)]_vars

\* Two threads have inserted distinct keys whose signatures share a band digest.
TwoInsertsDone(t1, t2) ==
    /\ t1 # t2
    /\ pc[t1] = "done" /\ tret[t1].exc = NoExc
    /\ pc[t2] = "done" /\ tret[t2].exc = NoExc
    /\ arg[t1].key # arg[t2].key

\* C6: once two concurrent inserts of distinct keys have both succeeded, in
\* every band where their signatures have the same digest the posting entry of
\* that digest holds both keys.
C6_NoLostAppend ==
    \A t1, t2 \in Threads :
        TwoInsertsDone(t1, t2) =>
            \A i \in 1..b :
                Hashes(arg[t1].minhash)[i] = Hashes(arg[t2].minhash)[i] =>
                    /\ Occurs(arg[t1].key, Posting(i, Hashes(arg[t1].minhash)[i]))
                    /\ Occurs(arg[t2].key, Posting(i, Hashes(arg[t1].minhash)[i]))

\* Both inserts are done and some band bucket received both keys.
C6_Witness ==
    \E t1, t2 \in Threads :
        /\ TwoInsertsDone(t1, t2)
        /\ \E i \in 1..b :
              Hashes(arg[t1].minhash)[i] = Hashes(arg[t2].minhash)[i]

\* No band table stores an entry whose key list is empty.
NoEmptyPosting ==
    \A i \in 1..b : \A H \in DOMAIN hashtable_dbs[i] :
        unpackb_list(hashtable_dbs[i][H]) # <<>>

\* C7: no band table ever stores an entry with an empty key list, and a
\* successful remove(k) leaves no entry for a bucket whose only key was k.
C7_EmptiedBucketDeleted ==
    [][/\ NoEmptyPosting'
       /\ \A k \in Keys :
            (call'.op = "remove" /\ call'.key = k /\ ret'.exc = NoExc) =>
                \A i \in 1..b :
                    (/\ Len(Posting(i, Digests(k)[i])) = 1
                     /\ Occurs(k, Posting(i, Digests(k)[i])))
                    => ~Has(hashtable_dbs'[i], Digests(k)[i])]_vars

\* C8: on an open index is_empty() is true exactly when no key is inserted
\* and not yet removed (so: true at first, false after an insert, true again
\* after the last key's removal).
C8_EmptyIffNoLiveKey ==
    env_open =>
        /\ IsEmptyResult.exc = NoExc
        /\ IsEmptyResult.val <=> (DOMAIN live = {})

\* C9: insert or query with a signature whose length is not h raises the
\* length error, open index or closed (the check comes before any
\* transaction), and leaves the store, contains(k) for every key and
\* is_empty() as they were.
C9_LengthRejected ==
    [][(call'.op \in {"insert", "query"} /\ Len(call'.minhash) # h)
        => /\ ret'.exc = LengthMismatch
           /\ SameStore
           /\ \A k \in Keys :
                /\ ContainsResult(k)'.exc = ContainsResult(k).exc
                /\ ContainsResult(k)'.val = ContainsResult(k).val
           /\ IsEmptyResult'.exc = IsEmptyResult.exc
           /\ IsEmptyResult'.val = IsEmptyResult.val]_vars

\* An insert with a signature of the wrong length was rejected on an index
\* that holds keys.
C9_Witness ==
    /\ call.op = "insert"
    /\ Len(call.minhash) # h
    /\ ret.exc = LengthMismatch
    /\ DOMAIN live # {}

\* C10: query, contains and is_empty leave the key table and every band
\* table as they were, whether they return or raise.
C10_ReadsDoNotMutate ==
    [][call'.op \in {"query", "contains", "is_empty"} => SameStore]_vars

\* A query has returned keys from a store that holds some.
C10_Witness ==
    /\ call.op = "query"
    /\ ret.exc = NoExc
    /\ ret.val # {}

\* The operations of an index besides its construction and close().
IndexOps == {"insert", "query", "remove", "contains", "is_empty"}

\* C11 as stated: once close() has run, every insert, query, remove, contains
\* and is_empty, whatever its arguments, raises the closed-environment error,
\* the index stays closed and the store is unchanged.
C11_ClosedRaisesClosedError ==
    [][(~env_open /\ call'.op \in IndexOps)
        => /\ ret'.exc = EnvClosed
           /\ ~env_open'
           /\ SameStore]_vars

\* C11: once close() has run, every insert, query, remove, contains and
\* is_empty raises, none returns a result, the index stays closed and the store
\* is unchanged.  insert and query with a signature whose length is not h
\* raise the length error (their check comes before env.begin), contains raises
\* the AttributeError it raises on an open index, and every other call raises
\* the closed-environment error.
C11_ClosedEveryCallRaises ==
    [][(~env_open /\ call'.op \in IndexOps)
        => /\ ret'.exc # NoExc
           /\ ret'.exc =
                (IF call'.op \in {"insert", "query"} /\ Len(call'.minhash) # h
                 THEN LengthMismatch
                 ELSE IF call'.op = "contains" THEN NoKeysAttr
                 ELSE EnvClosed)
           /\ ~env_open'
           /\ SameStore]_vars

\* A well-formed insert was refused on a closed index that holds keys.
C11_Witness ==
    /\ ~env_open
    /\ call.op = "insert"
    /\ Len(call.minhash) = h
    /\ ret.exc = EnvClosed
    /\ DOMAIN live # {}

\* What query(minhash) answers from a store, on an open index.
StoredAnswer(kdb, tdbs, minhash) == QueryTxn(View(kdb, tdbs), minhash)

\* C12: from close() to the construction of a new index at the same path with
\* the same parameters, no step changes the key table or a band table, and
\* across the close and across the construction the store answers query(s)
\* and contains(k) the same, for every signature s of length h and every key
\* k; the new index is open.
C12_SurvivesRestart ==
    [][/\ (~env_open \/ ~env_open') => SameStore
       /\ call'.op \in {"close", "__init__"}
            => /\ \A s \in GoodMinHashes :
                    LET before == StoredAnswer(keys_db, hashtable_dbs, s)
                        after == StoredAnswer(keys_db', hashtable_dbs', s)
                    IN  after.exc = before.exc /\ after.val = before.val
               /\ \A k \in Keys :
                    /\ ContainsResult(k)'.exc = ContainsResult(k).exc
                    /\ ContainsResult(k)'.val = ContainsResult(k).val
       /\ call'.op = "__init__" => env_open']_vars

\* A new index was constructed over a store that holds keys, some of which a
\* query returns.
C12_Witness ==
    /\ call.op = "__init__"
    /\ env_open
    /\ DOMAIN live # {}
    /\ \E s \in GoodMinHashes :
          LET answer == StoredAnswer(keys_db, hashtable_dbs, s)
          IN  answer.exc = NoExc /\ answer.val # {}

\* msgpack.unpackb of one encoded object.
unpackb(bs) == ObjAt(bs, 1)

\* C13: every key that was inserted decodes from its encoding to a value equal
\* to itself, and the copy of it that query and remove read from each of its
\* posting lists is equal to the key the caller passed to insert.
C13_CodecRoundTrips ==
    \A k \in DOMAIN live :
        /\ PyEq(unpackb(packb(k)), k)
        /\ \A i \in 1..b :
              LET keys == Posting(i, Digests(k)[i])
              IN  \A j \in 1..Len(keys) :
                      packb(keys[j]) = packb(k) => PyEq(keys[j], k)

\* The keys the posting entries (i, digest_i(s)) hold, over all bands.
BucketKeys(s) ==
    UNION {{Posting(i, Hashes(s)[i])[j] : j \in 1..Len(Posting(i, Hashes(s)[i]))} :
              i \in 1..b}

\* The contained keys whose inserted signature has the digest of s in a band.
Colliding(s) ==
    {k \in DOMAIN live : \E i \in 1..b : Hashes(live[k])[i] = Hashes(s)[i]}

\* C14: on an open index, for every signature s of length h, query(s)
\* returns, and returns exactly the set of the keys stored in the posting
\* entries (i, digest_i(s)) of the bands i, a band without the entry adding
\* nothing; that set is the set of the contained keys whose inserted signature
\* has the same digest as s in at least one band.
C14_QueryIsBucketUnion ==
    env_open =>
        \A s \in GoodMinHashes :
            /\ QueryResult(s).exc = NoExc
            /\ QueryResult(s).val = BucketKeys(s)
            /\ QueryResult(s).val = Colliding(s)

\* The thread is inside the with-block of its write transaction.
InTxn(t) == pc[t] \in {"check", "band", "commit", "rcheck", "rband", "rpop", "rcommit"}

\* C15: a call that raises inside its write transaction leaves the key table
\* and every band table as they were (the transaction is dropped and the
\* write lock freed); while a transaction is open and not committing, no step
\* changes the store; and whenever the store does change, the step is the
\* commit of a call that returns, and the new store is the old one with the
\* whole insert or the whole remove applied to it.
C15_AllOrNothing ==
    [][/\ \A t \in Threads :
            (InTxn(t) /\ tret'[t].exc # NoExc)
                => SameStore /\ writer' = 0 /\ txn'[t] = NoTxn
       /\ (writer # 0 /\ pc[writer] \notin {"commit", "rcommit"}) => SameStore
       /\ ~SameStore =>
            \E t \in Threads :
                /\ tret'[t].exc = NoExc
                /\ \/ /\ pc[t] = "commit"
                      /\ View(keys_db', hashtable_dbs') =
                            InsertTxn(Committed, arg[t].key, arg[t].minhash).view
                   \/ /\ pc[t] = "rcommit"
                      /\ View(keys_db', hashtable_dbs') =
                            RemoveTxn(Committed, arg[t].key).view]_vars

\* An insert has raised after writing the key's record and the posting of the
\* first band, on a store where another key is posted.
C15_Witness ==
    \E t \in Threads :
        /\ pc[t] = "done"
        /\ tret[t].exc = TxnError
        /\ arg[t].minhash # <<>>
        /\ idx[t] = 2
        /\ DOMAIN live # {}

\* A remove has raised after taking the key out of the posting of the first
\* band; the key is still contained.
C15_RemoveFailedMidway ==
    \E t \in Threads :
        /\ pc[t] = "done"
        /\ tret[t].exc = TxnError
        /\ arg[t].minhash = <<>>
        /\ idx[t] = 2
        /\ arg[t].key \in DOMAIN live

\* The decoded posting list of band i under digest H in a view.
PostingIn(view, i, H) ==
    IF Has(view.hashtable_dbs[i], H) THEN unpackb_list(view.hashtable_dbs[i][H])
    ELSE <<>>

\* keys holds an element that list.remove(k) would find.
Holds(keys, k) == \E j \in 1..Len(keys) : PyEq(keys[j], k)

\* The posting entry of band i under k's stored digest is absent from the
\* view, or its list does not hold k.
Anomalous(view, k, i) ==
    ~Holds(PostingIn(view, i, unpackb_list(view.keys_db[packb(k)])[i].val), k)

\* What remove(k) has made (after) of the store it started from (before): k's
\* record is gone and the others are as they were; a band whose entry under
\* k's stored digest is absent or does not hold k is as it was; in every other
\* band that entry has lost one occurrence of k, is deleted if nothing is left,
\* and the band's other entries are as they were.
Removed(before, after, k) ==
    /\ ~Has(after.keys_db, packb(k))
    /\ \A x \in DOMAIN before.keys_db :
          x # packb(k) => Has(after.keys_db, x) /\ after.keys_db[x] = before.keys_db[x]
    /\ \A i \in 1..b :
          LET H == unpackb_list(before.keys_db[packb(k)])[i].val
              P == PostingIn(before, i, H)
              Q == PostingIn(after, i, H)
          IN  IF Anomalous(before, k, i)
              THEN after.hashtable_dbs[i] = before.hashtable_dbs[i]
              ELSE /\ \E j \in 1..Len(P) : PyEq(P[j], k) /\ Q = Without(P, j)
                   /\ Has(after.hashtable_dbs[i], H) <=> Q # <<>>
                   /\ \A G \in DOMAIN before.hashtable_dbs[i] :
                         G # H => /\ Has(after.hashtable_dbs[i], G)
                                  /\ after.hashtable_dbs[i][G] = before.hashtable_dbs[i][G]
                   /\ DOMAIN after.hashtable_dbs[i] \subseteq DOMAIN before.hashtable_dbs[i]

Count(k, keys) == Cardinality({j \in 1..Len(keys) : packb(keys[j]) = packb(k)})

C18_NoStalePostings ==
    env_open =>
        /\ \A i \in 1..b : \A H \in DOMAIN hashtable_dbs[i] :
              \A j \in 1..Len(Posting(i, H)) :
                  LET bkey == packb(Posting(i, H)[j])
                  IN  /\ Has(keys_db, bkey)
                      /\ unpackb_list(keys_db[bkey])[i].val = H
        /\ \A k \in Keys \ DOMAIN live : \A s \in GoodMinHashes :
              QueryResult(s).exc = NoExc
                  => \A x \in QueryResult(s).val : packb(x) # packb(k)

\* keys without the occurrences of k, keys compared by their encoding.
Others(keys, k) == SelectSeq(keys, LAMBDA x : packb(x) # packb(k))

\* A successful remove(k) leaves the record of every other key as it was and,
\* in every posting entry of every band, the other keys in the order they
\* were in; it creates no entry.
RemoveLeavesOthers ==
    [][\A k \in Keys :
        (call'.op = "remove" /\ call'.key = k /\ ret'.exc = NoExc)
        => /\ \A x \in DOMAIN keys_db :
                x # packb(k) => Has(keys_db', x) /\ keys_db'[x] = keys_db[x]
           /\ DOMAIN keys_db' \subseteq DOMAIN keys_db
           /\ \A i \in 1..b :
                /\ DOMAIN hashtable_dbs'[i] \subseteq DOMAIN hashtable_dbs[i]
                /\ \A H \in DOMAIN hashtable_dbs[i] :
                      Others(PostingIn(View(keys_db', hashtable_dbs'), i, H), k)
                          = Others(Posting(i, H), k)]_vars

\* C19: a successful remove(k) leaves the record of every other key as it
\* was and every other key in the posting entries it was in, in the same
\* order; and for every signature s of length h, query(s) returns before and
\* after the remove, and returns after it what it returned before it, less k.
C19_RemoveAffectsOnlyK ==
    [][\A k \in Keys :
        (call'.op = "remove" /\ call'.key = k /\ ret'.exc = NoExc)
        => /\ \A x \in DOMAIN keys_db :
                x # packb(k) => Has(keys_db', x) /\ keys_db'[x] = keys_db[x]
           /\ \A i \in 1..b : \A H \in DOMAIN hashtable_dbs[i] :
                Others(PostingIn(View(keys_db', hashtable_dbs'), i, H), k)
                    = Others(Posting(i, H), k)
           /\ \A s \in GoodMinHashes :
                LET before == StoredAnswer(keys_db, hashtable_dbs, s)
                    after == StoredAnswer(keys_db', hashtable_dbs', s)
                IN  /\ before.exc = NoExc
                    /\ after.exc = NoExc
                    /\ after.val = {x \in before.val : packb(x) # packb(k)}]_vars

====
